---- MODULE Spec2Model ----
(***************************************************************************)
(* Player state / sync message model (src/common/gamelib/player.mjs) and   *)
(* the guidepost extension client with the map renderer                    *)
(* (src/extensions/guidepost/common/client.mjs).                           *)
(*                                                                         *)
(* Encoding of JavaScript values:                                          *)
(*   - an object property that may be undefined (or a key that may be      *)
(*     absent) is an option: <<>> is undefined/absent, <<v>> is the value; *)
(*   - map coordinates are records [x, y];                                 *)
(*   - a rational coordinate (interpolated pose) is [xn, yn, d], standing  *)
(*     for (xn/d, yn/d);                                                   *)
(*   - camera coordinates are integers in units of 1/(2*mapCellSize) of a  *)
(*     map cell, so that (canvas.width/2)/mapCellSize is exact.            *)
(***************************************************************************)
EXTENDS Integers, Sequences, FiniteSets, TLC

VARIABLES
  player,    \* the Player object that receives the updates
  now,       \* Date.now()
  last,      \* the last update applied: its input, message and result
  pose,      \* the result of the last getDrawInfo() call
  stored,    \* the last serialization of the player: the player and its JSON
  wireIn,    \* a JSON object received from the wire
  msgObj,    \* the PlayerSyncMessage built from it (or by the constructor)
  wireOut,   \* its toJSON()
  msgBack,   \* PlayerSyncMessage.fromObject of that JSON
  players,         \* gameState: the player collection the renderer draws
  mapSize,         \* map.getMapSize(), in cells
  viewerPosition,  \* MapRenderer.viewerPosition
  viewportFollow,  \* MapRenderer.viewportFollow
  camReq,          \* the arguments of the running setViewerPosition call
  frame,           \* the running draw() call: what it drew and its outcome
  probe,           \* a canvas pixel taken to the map and back
  pc,              \* Client.gameStart: where the async function stands
  images,          \* what happened to each guidepost image
  promises,        \* the state of each image's promise
  allState,        \* the state of Promise.all(arr_promise)
  errLog,          \* what console.error received
  layers,          \* the renderer's registered layers
  regCalls         \* the calls of registerCustomizedLayerToDraw made by gameStart

syncVars == <<player, now, last, pose, stored>>
wireVars == <<wireIn, msgObj, wireOut, msgBack>>
renderVars == <<players, mapSize, viewerPosition, viewportFollow, camReq, frame, probe>>
loaderVars == <<pc, images, promises, allState, errLog, layers, regCalls>>
vars == <<player, now, last, pose, stored, wireIn, msgObj, wireOut, msgBack,
          players, mapSize, viewerPosition, viewportFollow, camReq, frame, probe,
          pc, images, promises, allState, errLog, layers, regCalls>>

\* ------------------------------------------------------------------ bounds
\* Player coordinates lie on the diagonal (0,0) .. (MaxCoord,MaxCoord).
MaxCoord == 1
\* The clock (Date.now()) runs from 0 to MaxNow.
MaxNow == 2

\* The animation clock runs over the frames 0 .. MaxFrame.
MaxFrame == 3

\* Maps are squares of 1 .. MaxMapSize cells.
MaxMapSize == 3
\* setViewerPosition is requested at half-cell steps from -1/2 to MaxReq/2.
MaxReq == 6
\* guideposts.json lists 0 .. MaxImages images.
MaxImages == 3

\* --------------------------------------------------------------- constants
\* player.mjs:12
PLAYER_MOVE_ANIMATION_FRAME_RATE == 100
\* client.mjs:68
mapCellSize == 32
\* move-check.mjs (imported at player.mjs:5): the move interval T.
PLAYER_MOVE_TIME_INTERVAL == 2

\* The canvas, in pixels (canvas.width, canvas.height).
CanvasWidth == 64
CanvasHeight == 64
\* The value of a coordinate that is NaN (viewerPosition before
\* initialization, arithmetic on undefined).
NaN == -1000000
\* Camera and request coordinates are in units of 1/Unit of a cell.
Unit == 2 * mapCellSize

\* ----------------------------------------------------------------- options
None == <<>>
Some(v) == <<v>>
Val(o) == o[1]

\* ------------------------------------------------------------ input domains
PlayerIDs == {"p1", "p2"}
Coords == {[x |-> i, y |-> i] : i \in 0..MaxCoord}
DisplayNames == {"nick"}
DisplayChars == {"char2"}
Opt(S) == {None} \cup {Some(v) : v \in S}

\* JSON objects on the wire: a key is absent (None) or carries a value.
Wires ==
  [playerID : Opt(PlayerIDs), mapCoord : Opt(Coords), facing : Opt({"U"}),
   displayName : Opt(DisplayNames), displayChar : Opt(DisplayChars),
   removed : Opt(BOOLEAN), clientTime : Opt({0}), updateSuccess : Opt({TRUE})]

\* The wire objects of player updates: clientTime and updateSuccess are only
\* passed through, so the update channel of the model leaves them out.
SyncWires ==
  [playerID : Opt(PlayerIDs), mapCoord : Opt(Coords), facing : Opt({"U"}),
   displayName : Opt(DisplayNames), displayChar : Opt(DisplayChars),
   removed : Opt(BOOLEAN), clientTime : {None}, updateSuccess : {None}]

\* Argument lists of new PlayerSyncMessage(...): an omitted argument is None.
CtorArgs ==
  [playerID : {Some(i) : i \in PlayerIDs}, mapCoord : Opt(Coords),
   facing : Opt({"U"}), displayName : Opt(DisplayNames),
   displayChar : Opt(DisplayChars), removed : Opt(BOOLEAN),
   clientTime : {None}, updateSuccess : {None}]

\* ------------------------------------------------------------------ MapCoord
\* MapCoord.fromObject: builds a coordinate from the x and y of an object.
MapCoordFromObject(obj) == [x |-> obj.x, y |-> obj.y]

\* MapCoord.equalsTo: value equality of two coordinates.
equalsTo(a, b) == a.x = b.x /\ a.y = b.y

\* -------------------------------------------------------------------- Player
\* new Player(playerID)
NewPlayer(playerID) ==
  [playerID |-> playerID,
   displayName |-> playerID,
   displayChar |-> Some("char1"),
   mapCoord |-> None,
   facing |-> Some("D"),
   lastMovingTime |-> None,
   previousMapCoord |-> None,
   removed |-> None]

\* An object on which no property has been set.
EmptyMessage ==
  [playerID |-> None, mapCoord |-> None, facing |-> None, displayName |-> None,
   displayChar |-> None, removed |-> None, clientTime |-> None,
   updateSuccess |-> None]

\* a ?? b
Nullish(a, b) == IF a # None THEN a ELSE b

\* new PlayerSyncMessage(playerID, mapCoord, facing, displayName, displayChar,
\*                       removed, clientTime, updateSuccess)
NewPlayerSyncMessage(a) ==
  IF a.playerID = None
    THEN EmptyMessage
    ELSE [playerID |-> a.playerID,
          mapCoord |-> a.mapCoord,
          facing |-> a.facing,
          displayName |-> a.displayName,
          displayChar |-> a.displayChar,
          removed |-> Nullish(a.removed, Some(FALSE)),
          clientTime |-> a.clientTime,
          updateSuccess |-> a.updateSuccess]

\* PlayerSyncMessage.toJSON
MsgToJSON(m) ==
  [playerID |-> m.playerID,
   mapCoord |-> m.mapCoord,
   facing |-> m.facing,
   displayName |-> m.displayName,
   displayChar |-> m.displayChar,
   removed |-> m.removed,
   clientTime |-> m.clientTime,
   updateSuccess |-> m.updateSuccess]

\* PlayerSyncMessage.fromObject
MsgFromObject(obj) ==
  LET ret == NewPlayerSyncMessage([EmptyMessage EXCEPT !.playerID = obj.playerID])
  IN [ret EXCEPT
        !.mapCoord = IF obj.mapCoord # None
                       THEN Some(MapCoordFromObject(Val(obj.mapCoord))) ELSE @,
        !.facing = IF obj.facing # None THEN obj.facing ELSE @,
        !.displayName = IF obj.displayName # None THEN obj.displayName ELSE @,
        !.displayChar = IF obj.displayChar # None THEN obj.displayChar ELSE @,
        !.removed = IF obj.removed # None THEN obj.removed ELSE @,
        !.clientTime = IF obj.clientTime # None THEN obj.clientTime ELSE @,
        !.updateSuccess = IF obj.updateSuccess # None THEN obj.updateSuccess ELSE @]

\* Mutant: every update that carries a coordinate stamps lastMovingTime, also
\* one that repeats the current coordinate.
applyFieldsAlwaysStamp(this, msg, t) ==
  LET moved == IF msg.mapCoord # None
        THEN [this EXCEPT
                !.lastMovingTime = IF this.mapCoord # None THEN Some(t) ELSE @,
                !.previousMapCoord = Nullish(this.mapCoord, msg.mapCoord),
                !.mapCoord = msg.mapCoord]
        ELSE this
  IN [moved EXCEPT
        !.facing = IF msg.facing # None THEN msg.facing ELSE @,
        !.displayName = IF msg.displayName # None THEN msg.displayName ELSE @,
        !.displayChar = IF msg.displayChar # None THEN msg.displayChar ELSE @,
        !.removed = IF msg.removed # None THEN msg.removed ELSE @]

\* Player.updateFromMessage, after the playerID check: the fields of the
\* message that are not undefined overwrite the player's.
applyFields(this, msg, t) ==
  LET moved == IF msg.mapCoord # None
        THEN [this EXCEPT
                !.lastMovingTime =
                   IF this.mapCoord # None
                      /\ ~equalsTo(Val(msg.mapCoord), Val(this.mapCoord))
                     THEN Some(t) ELSE @,
                !.previousMapCoord = Nullish(this.mapCoord, msg.mapCoord),
                !.mapCoord = msg.mapCoord]
        ELSE this
  IN [moved EXCEPT
        !.facing = IF msg.facing # None THEN msg.facing ELSE @,
        !.displayName = IF msg.displayName # None THEN msg.displayName ELSE @,
        !.displayChar = IF msg.displayChar # None THEN msg.displayChar ELSE @,
        !.removed = IF msg.removed # None THEN msg.removed ELSE @]

\* Mutant: the playerID check is missing.
updateFromMessageNoIdCheck(this, msg, t) ==
  [player |-> applyFields(this, msg, t), ret |-> TRUE]

\* Player.updateFromMessage(msg) at Date.now() = t: the updated player and the
\* returned boolean.
updateFromMessage(this, msg, t) ==
  IF msg.playerID # this.playerID
    THEN [player |-> this, ret |-> FALSE]
    ELSE [player |-> applyFields(this, msg, t), ret |-> TRUE]

\* Mutant: the interpolation runs from the new position to the old one.
InterpolateSwapped(P, Q, e) ==
  [xn |-> (PLAYER_MOVE_TIME_INTERVAL - e) * Q.x + e * P.x,
   yn |-> (PLAYER_MOVE_TIME_INTERVAL - e) * Q.y + e * P.y,
   d |-> PLAYER_MOVE_TIME_INTERVAL]

\* The interpolated coordinate of getDrawInfo, with frac = e / T:
\* (1 - frac) * P + frac * Q, as a fraction over T.
Interpolate(P, Q, e) ==
  [xn |-> (PLAYER_MOVE_TIME_INTERVAL - e) * P.x + e * Q.x,
   yn |-> (PLAYER_MOVE_TIME_INTERVAL - e) * P.y + e * Q.y,
   d |-> PLAYER_MOVE_TIME_INTERVAL]

\* Mutant: the walk cycle steps on the odd phases.
stepOfPhaseOdd(phase) ==
  IF phase = 1 THEN "R" ELSE IF phase = 3 THEN "L" ELSE ""

\* The suffix getDrawInfo appends to the facing in the moving branch.
stepOfPhase(phase) ==
  IF phase = 0 THEN "R" ELSE IF phase = 2 THEN "L" ELSE ""

\* Player.getDrawInfo() at Date.now() = t.  lastMovingTime undefined makes
\* smoothMoveEnd NaN and the comparison false.  Reading .x of an undefined
\* coordinate throws a TypeError.
getDrawInfo(this, t) ==
  LET moving == this.lastMovingTime # None
                /\ t < Val(this.lastMovingTime) + PLAYER_MOVE_TIME_INTERVAL
      e == t - Val(this.lastMovingTime)
      P == Val(this.previousMapCoord)
      Q == Val(this.mapCoord)
      phase == (t \div PLAYER_MOVE_ANIMATION_FRAME_RATE) % 4
  IN IF moving
       THEN IF this.mapCoord = None \/ this.previousMapCoord = None
              THEN [threw |-> TRUE, mapCoord |-> None, displayChar |-> None,
                    facing |-> None, step |-> "", displayName |-> None]
              ELSE [threw |-> FALSE,
                    mapCoord |-> Some(Interpolate(P, Q, e)),
                    displayChar |-> this.displayChar,
                    facing |-> this.facing,
                    step |-> stepOfPhase(phase),
                    displayName |-> this.displayName]
       ELSE [threw |-> FALSE,
             mapCoord |-> IF this.mapCoord = None THEN None
                          ELSE Some([xn |-> Val(this.mapCoord).x,
                                     yn |-> Val(this.mapCoord).y, d |-> 1]),
             displayChar |-> this.displayChar,
             facing |-> this.facing,
             step |-> "",
             displayName |-> this.displayName]

\* Mutant: a finished move is forgotten when the pose is computed.
getDrawInfoThisForgets(this, t) ==
  IF this.lastMovingTime # None
     /\ ~(t < Val(this.lastMovingTime) + PLAYER_MOVE_TIME_INTERVAL)
    THEN [this EXCEPT !.lastMovingTime = None, !.previousMapCoord = this.mapCoord]
    ELSE this

\* The player after getDrawInfo() at Date.now() = t: the method assigns no
\* property of this, and the coordinate it interpolates in (inter) is a new
\* object made by MapCoord.fromObject, not this.mapCoord.
getDrawInfoThis(this, t) == this

\* Player.toJSON(): the ATTRIBUTES of the player; a key whose value is
\* undefined is left out by JSON.stringify.
PlayerToJSON(this) ==
  [playerID |-> this.playerID,
   displayName |-> this.displayName,
   displayChar |-> this.displayChar,
   mapCoord |-> this.mapCoord,
   facing |-> this.facing,
   lastMovingTime |-> this.lastMovingTime]

\* Mutant: the special case for mapCoord does not set _previousMapCoord.
PlayerFromObjectNoPrevious(obj) ==
  LET ret == NewPlayer(obj.playerID)
      assigned ==
        [ret EXCEPT
           !.playerID = IF obj.playerID # None THEN obj.playerID ELSE @,
           !.displayName = IF obj.displayName # None THEN obj.displayName ELSE @,
           !.displayChar = IF obj.displayChar # None THEN obj.displayChar ELSE @,
           !.mapCoord = IF obj.mapCoord # None THEN obj.mapCoord ELSE @,
           !.facing = IF obj.facing # None THEN obj.facing ELSE @,
           !.lastMovingTime = IF obj.lastMovingTime # None
                                THEN obj.lastMovingTime ELSE @]
  IN IF obj.mapCoord # None
       THEN [assigned EXCEPT
               !.mapCoord = Some(MapCoordFromObject(Val(obj.mapCoord)))]
       ELSE assigned

\* Player.fromObject(obj): a new Player, the ATTRIBUTES that obj has, and the
\* special case for mapCoord.
PlayerFromObject(obj) ==
  LET ret == NewPlayer(obj.playerID)
      assigned ==
        [ret EXCEPT
           !.playerID = IF obj.playerID # None THEN obj.playerID ELSE @,
           !.displayName = IF obj.displayName # None THEN obj.displayName ELSE @,
           !.displayChar = IF obj.displayChar # None THEN obj.displayChar ELSE @,
           !.mapCoord = IF obj.mapCoord # None THEN obj.mapCoord ELSE @,
           !.facing = IF obj.facing # None THEN obj.facing ELSE @,
           !.lastMovingTime = IF obj.lastMovingTime # None
                                THEN obj.lastMovingTime ELSE @]
  IN IF obj.mapCoord # None
       THEN [assigned EXCEPT
               !.mapCoord = Some(MapCoordFromObject(Val(obj.mapCoord))),
               !.previousMapCoord = Some(MapCoordFromObject(Val(obj.mapCoord)))]
       ELSE assigned

\* ------------------------------------------------- player synchronisation
InitSync ==
  /\ player = NewPlayer(Some("p1"))
  /\ now = 0
  /\ last = None
  /\ pose = None
  /\ stored = None

InitWireIdle ==
  /\ wireIn = EmptyMessage
  /\ msgObj = None
  /\ wireOut = None
  /\ msgBack = None

\* Time passes.
Tick ==
  /\ last = None /\ pose = None /\ stored = None
  /\ now < MaxNow
  /\ now' = now + 1
  /\ UNCHANGED <<player, last, pose, stored>>

\* The transport delivers a JSON object; the handler deserializes it and
\* applies it to the player.  last is the handler's activation: the object
\* received, the message built from it and the value returned.
Deliver(w) ==
  LET msg == MsgFromObject(w)
      r == updateFromMessage(player, msg, now)
  IN /\ last = None /\ pose = None /\ stored = None
     /\ player' = r.player
     /\ last' = Some([via |-> "wire", input |-> w, msg |-> msg, ret |-> r.ret])
     /\ UNCHANGED <<now, pose, stored>>

\* A message built with the constructor is applied to the player.
ApplyConstructed(a) ==
  LET msg == NewPlayerSyncMessage(a)
      r == updateFromMessage(player, msg, now)
  IN /\ last = None /\ pose = None /\ stored = None
     /\ player' = r.player
     /\ last' = Some([via |-> "ctor", input |-> a, msg |-> msg, ret |-> r.ret])
     /\ UNCHANGED <<now, pose, stored>>

\* The renderer asks the player for its draw pose.
GetDrawInfo ==
  /\ last = None /\ pose = None /\ stored = None
  /\ pose' = Some(getDrawInfo(player, now))
  /\ player' = getDrawInfoThis(player, now)
  /\ UNCHANGED <<now, last, stored>>

\* The running call returns to the event loop and its results are dropped.
Return ==
  /\ last # None \/ pose # None \/ stored # None
  /\ last' = None
  /\ pose' = None
  /\ stored' = None
  /\ UNCHANGED <<player, now>>

\* One millisecond passes within the current animation frame.
TickMs ==
  /\ last = None /\ pose = None /\ stored = None
  /\ now % PLAYER_MOVE_ANIMATION_FRAME_RATE < MaxNow
  /\ now' = now + 1
  /\ UNCHANGED <<player, last, pose, stored>>

\* One animation frame passes.
TickFrame ==
  /\ last = None /\ pose = None /\ stored = None
  /\ now \div PLAYER_MOVE_ANIMATION_FRAME_RATE < MaxFrame
  /\ now' = now + PLAYER_MOVE_ANIMATION_FRAME_RATE
  /\ UNCHANGED <<player, last, pose, stored>>

\* The player is serialized (JSON.stringify calls toJSON) and the player
\* object is replaced by Player.fromObject of the parsed JSON.
RoundTrip ==
  /\ last = None /\ pose = None /\ stored = None
  /\ stored' = Some([before |-> player, json |-> PlayerToJSON(player)])
  /\ player' = PlayerFromObject(PlayerToJSON(player))
  /\ UNCHANGED <<now, last, pose>>

\* The updates of the stored player: its own, with a position, a facing or
\* a tombstone.
PlayerWires ==
  [playerID : {Some("p1")}, mapCoord : Opt(Coords), facing : Opt({"U"}),
   displayName : {None}, displayChar : {None}, removed : Opt({TRUE}),
   clientTime : {None}, updateSuccess : {None}]

NextPlayer ==
  \/ TickMs /\ UNCHANGED <<wireVars, renderVars, loaderVars>>
  \/ TickFrame /\ UNCHANGED <<wireVars, renderVars, loaderVars>>
  \/ (\E w \in PlayerWires : Deliver(w)) /\ UNCHANGED <<wireVars, renderVars, loaderVars>>
  \/ GetDrawInfo /\ UNCHANGED <<wireVars, renderVars, loaderVars>>
  \/ RoundTrip /\ UNCHANGED <<wireVars, renderVars, loaderVars>>
  \/ Return /\ UNCHANGED <<wireVars, renderVars, loaderVars>>

Next ==
  \/ Tick /\ UNCHANGED <<wireVars, renderVars, loaderVars>>
  \/ (\E w \in SyncWires : Deliver(w)) /\ UNCHANGED <<wireVars, renderVars, loaderVars>>
  \/ (\E a \in CtorArgs : ApplyConstructed(a))
       /\ UNCHANGED <<wireVars, renderVars, loaderVars>>
  \/ GetDrawInfo /\ UNCHANGED <<wireVars, renderVars, loaderVars>>
  \/ Return /\ UNCHANGED <<wireVars, renderVars, loaderVars>>

\* ------------------------------------------- sync message serialization
\* A JSON object arrives (or the same values are given to the constructor).
InitWire ==
  /\ wireIn \in Wires
  /\ msgObj = None
  /\ wireOut = None
  /\ msgBack = None

\* PlayerSyncMessage.fromObject(wireIn)
FromObject ==
  /\ msgObj = None
  /\ msgObj' = Some([via |-> "fromObject", msg |-> MsgFromObject(wireIn)])
  /\ UNCHANGED <<wireIn, wireOut, msgBack>>

\* new PlayerSyncMessage(...) with the values of wireIn as arguments
Construct ==
  /\ msgObj = None
  /\ msgObj' = Some([via |-> "ctor", msg |-> NewPlayerSyncMessage(wireIn)])
  /\ UNCHANGED <<wireIn, wireOut, msgBack>>

\* msgObj.toJSON()
ToJSON ==
  /\ msgObj # None /\ wireOut = None
  /\ wireOut' = Some(MsgToJSON(Val(msgObj).msg))
  /\ UNCHANGED <<wireIn, msgObj, msgBack>>

\* PlayerSyncMessage.fromObject(wireOut)
FromObjectBack ==
  /\ wireOut # None /\ msgBack = None
  /\ msgBack' = Some(MsgFromObject(Val(wireOut)))
  /\ UNCHANGED <<wireIn, msgObj, wireOut>>

NextWire ==
  \/ FromObject /\ UNCHANGED <<syncVars, renderVars, loaderVars>>
  \/ Construct /\ UNCHANGED <<syncVars, renderVars, loaderVars>>
  \/ ToJSON /\ UNCHANGED <<syncVars, renderVars, loaderVars>>
  \/ FromObjectBack /\ UNCHANGED <<syncVars, renderVars, loaderVars>>

\* ------------------------------------------------------------ MapRenderer
Min(a, b) == IF a <= b THEN a ELSE b
Max(a, b) == IF a >= b THEN a ELSE b

\* Mutant: the lower limit is not applied.
ClampNoLower(x, lo, hi) == IF x = NaN THEN NaN ELSE Min(x, hi)

\* Math.min(Math.max(x, lo), hi); NaN stays NaN.
Clamp(x, lo, hi) == IF x = NaN THEN NaN ELSE Min(Max(x, lo), hi)

\* The limits of setViewerPosition, in units: minX = (canvas.width / 2) /
\* mapCellSize, maxX = mapSize.width - minX, and the same for Y.
MinX == (CanvasWidth * Unit) \div (2 * mapCellSize)
MaxX(size) == size.width * Unit - MinX
MinY == (CanvasHeight * Unit) \div (2 * mapCellSize)
MaxY(size) == size.height * Unit - MinY

\* MapRenderer.setViewerPosition(x, y): the new viewerPosition.
setViewerPosition(x, y, size) ==
  [x |-> Clamp(x, MinX, MaxX(size)), y |-> Clamp(y, MinY, MaxY(size))]

\* x + 0.5 for a cell coordinate x that may be undefined, in units.
PlusHalf(c) == IF c = NaN THEN NaN ELSE c * Unit + Unit \div 2

\* The callback the constructor registers with registerPlayerLocationChange:
\* the camera follows the viewportFollow player.
locationChange(follow, cam, loc, size) ==
  IF follow = Some(loc.playerID)
    THEN setViewerPosition(PlusHalf(loc.x), PlusHalf(loc.y), size)
    ELSE cam

\* MapRenderer.canvasToMapCoordinate(px, py), in units.
canvasToMapCoordinate(cam, px, py) ==
  [x |-> IF cam.x = NaN THEN NaN
         ELSE cam.x + ((2 * px - CanvasWidth) * Unit) \div (2 * mapCellSize),
   y |-> IF cam.y = NaN THEN NaN
         ELSE cam.y + ((2 * py - CanvasHeight) * Unit) \div (2 * mapCellSize)]

\* Mutant: the canvas centre is left out.
mapToCanvasNoCenter(cam, x, y) ==
  [x |-> IF cam.x = NaN \/ x = NaN THEN NaN
         ELSE (2 * mapCellSize * (x - cam.x)) \div (2 * Unit),
   y |-> IF cam.y = NaN \/ y = NaN THEN NaN
         ELSE (2 * mapCellSize * (y - cam.y)) \div (2 * Unit)]

\* MapRenderer.mapToCanvasCoordinate(x, y) for x, y in units: floored pixels.
mapToCanvasCoordinate(cam, x, y) ==
  [x |-> IF cam.x = NaN \/ x = NaN THEN NaN
         ELSE (CanvasWidth * Unit + 2 * mapCellSize * (x - cam.x)) \div (2 * Unit),
   y |-> IF cam.y = NaN \/ y = NaN THEN NaN
         ELSE (CanvasHeight * Unit + 2 * mapCellSize * (y - cam.y)) \div (2 * Unit)]

\* Math.floor of a coordinate in units, in cells.
FloorCell(u) == IF u = NaN THEN NaN ELSE u \div Unit

\* One entry of what draw() put on the canvas.
Drawn(kind, id, c) == [kind |-> kind, id |-> id, x |-> c.x, y |-> c.y]

\* MapRenderer._drawGround: the cells of the visible box that lie inside the
\* map, row by row; a missing render info throws at the first of them.
drawGround(cam, size, groundOk) ==
  LET first == canvasToMapCoordinate(cam, 0, 0)
      lastc == canvasToMapCoordinate(cam, CanvasWidth, CanvasHeight)
      fx == FloorCell(first.x)
      fy == FloorCell(first.y)
      lx == FloorCell(lastc.x)
      ly == FloorCell(lastc.y)
      nx == IF fx = NaN THEN 0 ELSE Max(lx - fx + 1, 0)
      ny == IF fy = NaN THEN 0 ELSE Max(ly - fy + 1, 0)
      box == [i \in 1..(nx * ny) |->
                [x |-> fx + ((i - 1) % nx), y |-> fy + ((i - 1) \div nx)]]
      inMap(c) == ~(c.x < 0 \/ c.x >= size.width \/ c.y < 0 \/ c.y >= size.height)
      cells == SelectSeq(box, inMap)
  IN IF cells # <<>> /\ ~groundOk
       THEN [log |-> <<>>, threw |-> TRUE]
       ELSE [log |-> [i \in 1..Len(cells) |->
                        Drawn("ground", "",
                              mapToCanvasCoordinate(cam, cells[i].x * Unit,
                                                    cells[i].y * Unit))],
             threw |-> FALSE]

\* gameState.getPlayers(): the players of the collection, each with the x and
\* y of its position (undefined while the position is unset).
getPlayers(coll) ==
  LET ids == SelectSeq(<<"p1", "p2">>, LAMBDA i : coll[i] # None)
  IN [k \in 1..Len(ids) |->
        LET pl == Val(coll[ids[k]])
        IN [playerID |-> ids[k],
            x |-> IF pl.mapCoord = None THEN NaN ELSE Val(pl.mapCoord).x,
            y |-> IF pl.mapCoord = None THEN NaN ELSE Val(pl.mapCoord).y,
            removed |-> pl.removed]]

\* The out-of-viewport test of _drawPlayers; a comparison with NaN is false.
OutOfViewport(cc) ==
  \/ cc.x # NaN /\ (cc.x < -mapCellSize \/ cc.x >= CanvasWidth)
  \/ cc.y # NaN /\ (cc.y < -mapCellSize \/ cc.y >= CanvasHeight)

\* Mutant: the name of each player is drawn right after its sprite.
drawPlayersInterleaved(cam, plist, charOk) ==
  LET spriteAt(e) == mapToCanvasCoordinate(cam, IF e.x = NaN THEN NaN ELSE e.x * Unit,
                                           IF e.y = NaN THEN NaN ELSE e.y * Unit)
      labelAt(e) == mapToCanvasCoordinate(cam, PlusHalf(e.x),
                                          IF e.y = NaN THEN NaN ELSE e.y * Unit)
      shown == SelectSeq(plist, LAMBDA e : ~OutOfViewport(spriteAt(e)))
      both(e) == IF OutOfViewport(spriteAt(e))
                   THEN <<Drawn("label", e.playerID, labelAt(e))>>
                   ELSE <<Drawn("sprite", e.playerID, spriteAt(e)),
                          Drawn("label", e.playerID, labelAt(e))>>
  IN IF shown # <<>> /\ ~charOk
       THEN [log |-> <<>>, threw |-> TRUE]
       ELSE [log |-> IF Len(plist) = 0 THEN <<>>
                     ELSE IF Len(plist) = 1 THEN both(plist[1])
                     ELSE both(plist[1]) \o both(plist[2]),
             threw |-> FALSE]

\* MapRenderer._drawPlayers: the sprites of the players not out of the
\* viewport, then the name of every player; a missing character image throws
\* at the first sprite.
drawPlayers(cam, plist, charOk) ==
  LET spriteAt(e) == mapToCanvasCoordinate(cam, IF e.x = NaN THEN NaN ELSE e.x * Unit,
                                           IF e.y = NaN THEN NaN ELSE e.y * Unit)
      labelAt(e) == mapToCanvasCoordinate(cam, PlusHalf(e.x),
                                          IF e.y = NaN THEN NaN ELSE e.y * Unit)
      shown == SelectSeq(plist, LAMBDA e : ~OutOfViewport(spriteAt(e)))
  IN IF shown # <<>> /\ ~charOk
       THEN [log |-> <<>>, threw |-> TRUE]
       ELSE [log |-> [i \in 1..Len(shown) |->
                         Drawn("sprite", shown[i].playerID, spriteAt(shown[i]))]
                     \o [i \in 1..Len(plist) |->
                         Drawn("label", plist[i].playerID, labelAt(plist[i]))],
             threw |-> FALSE]

\* MapRenderer.draw(): ret &&= _drawGround(); ret &&= _drawPlayers().  An
\* exception of either leaves draw() at once.  The result also notes what
\* the collaborators answered.
draw(cam, size, coll, groundOk, charOk) ==
  LET g == drawGround(cam, size, groundOk)
      p == drawPlayers(cam, getPlayers(coll), charOk)
  IN IF g.threw
       THEN [log |-> g.log, threw |-> TRUE, ret |-> None,
             groundOk |-> groundOk, charOk |-> charOk]
       ELSE IF p.threw
              THEN [log |-> g.log \o p.log, threw |-> TRUE, ret |-> None,
                    groundOk |-> groundOk, charOk |-> charOk]
              ELSE [log |-> g.log \o p.log, threw |-> FALSE, ret |-> Some(TRUE),
                    groundOk |-> groundOk, charOk |-> charOk]

\* registerCustomizedLayerToDraw(zIndex, layerName, drawFunction, data): adds
\* the entry, replacing one of the same name.
registerCustomizedLayerToDraw(reg, entry) ==
  Append(SelectSeq(reg, LAMBDA l : l.layerName # entry.layerName), entry)

\* client.mjs:5
LAYER_GUIDEPOST == [zIndex |-> -10, layerName |-> "guidepost"]

\* Layers that other extensions register.
OtherLayers == {[zIndex |-> 5, layerName |-> "fog"]}

\* ------------------------------------------------------------ rendering
SquareMaps == {[width |-> k, height |-> k] : k \in 1..MaxMapSize}
ReqCoords == {k * (Unit \div 2) : k \in -1..MaxReq}

\* The objects on the wire in the rendering model: position and tombstone.
RenderWires ==
  [playerID : {Some(i) : i \in PlayerIDs}, mapCoord : Opt(Coords), facing : {None},
   displayName : {None}, displayChar : {None}, removed : Opt({TRUE}),
   clientTime : {None}, updateSuccess : {None}]

InitRenderIdle ==
  /\ players = [i \in PlayerIDs |-> None]
  /\ mapSize = [width |-> MaxMapSize, height |-> MaxMapSize]
  /\ viewerPosition = [x |-> NaN, y |-> NaN]
  /\ viewportFollow = None
  /\ camReq = None
  /\ frame = None
  /\ probe = None

InitRender ==
  /\ players = [i \in PlayerIDs |-> None]
  /\ mapSize \in SquareMaps
  /\ viewerPosition = [x |-> NaN, y |-> NaN]
  /\ viewportFollow = None
  /\ camReq = None
  /\ frame = None
  /\ probe = None

RenderIdle == camReq = None /\ frame = None /\ probe = None

\* GameState.onPlayerUpdate: the update is applied to the player of the
\* collection (created at its first update), and an update with a position
\* is notified to the location-change callback of the renderer.
PlayerUpdate(w) ==
  LET msg == MsgFromObject(w)
      id == Val(msg.playerID)
      target == IF players[id] = None THEN NewPlayer(Some(id)) ELSE Val(players[id])
      r == updateFromMessage(target, msg, now)
      loc == [playerID |-> id, x |-> Val(msg.mapCoord).x, y |-> Val(msg.mapCoord).y]
  IN /\ RenderIdle
     /\ players' = [players EXCEPT ![id] = Some(r.player)]
     /\ IF msg.mapCoord # None
          THEN /\ viewerPosition' =
                    locationChange(viewportFollow, viewerPosition, loc, mapSize)
               /\ camReq' = IF viewportFollow = Some(id)
                              THEN Some([x |-> PlusHalf(loc.x), y |-> PlusHalf(loc.y)])
                              ELSE None
          ELSE UNCHANGED <<camReq, viewerPosition>>
     /\ UNCHANGED <<mapSize, viewportFollow, frame, probe>>

\* MapRenderer.initializeViewerPosition, called once the local player p1 is
\* in the collection.
InitializeViewerPosition ==
  LET e == getPlayers(players)[1]
  IN /\ RenderIdle
     /\ viewportFollow = None
     /\ players["p1"] # None
     /\ viewportFollow' = Some("p1")
     /\ camReq' = Some([x |-> PlusHalf(e.x), y |-> PlusHalf(e.y)])
     /\ viewerPosition' = setViewerPosition(PlusHalf(e.x), PlusHalf(e.y), mapSize)
     /\ UNCHANGED <<players, mapSize, frame, probe>>

\* MapRenderer.setViewerPosition(x, y) called with a requested position.
SetViewerPosition(x, y) ==
  /\ RenderIdle
  /\ camReq' = Some([x |-> x, y |-> y])
  /\ viewerPosition' = setViewerPosition(x, y, mapSize)
  /\ UNCHANGED <<players, mapSize, viewportFollow, frame, probe>>

\* MapRenderer.draw(); whether the map and the graphic asset have the images
\* asked for is decided by the collaborators.
Draw(groundOk, charOk) ==
  /\ RenderIdle
  /\ frame' = Some(draw(viewerPosition, mapSize, players, groundOk, charOk))
  /\ UNCHANGED <<players, mapSize, viewerPosition, viewportFollow, camReq, probe>>

\* canvasToMapCoordinate(px, py) of a canvas pixel, and mapToCanvasCoordinate
\* of the map coordinate it returns.
PixelRoundTrip(px, py) ==
  LET m == canvasToMapCoordinate(viewerPosition, px, py)
  IN /\ RenderIdle
     /\ probe' = Some([px |-> px, py |-> py, map |-> m,
                       back |-> mapToCanvasCoordinate(viewerPosition, m.x, m.y)])
     /\ UNCHANGED <<players, mapSize, viewerPosition, viewportFollow, camReq, frame>>

\* The running renderer call returns.
RenderReturn ==
  /\ ~RenderIdle
  /\ camReq' = None
  /\ frame' = None
  /\ probe' = None
  /\ UNCHANGED <<players, mapSize, viewerPosition, viewportFollow>>

\* ------------------------------------------------------- Client.gameStart
\* Mutant: image.onerror resolves the promise.
OnErrorOutcomeResolve == "fulfilled"

\* What image.onerror does to the image's promise: reject(...).
OnErrorOutcome == "rejected"

InitLoaderIdle ==
  /\ pc = "idle"
  /\ images = <<>>
  /\ promises = <<>>
  /\ allState = "none"
  /\ errLog = <<>>
  /\ layers = <<>>
  /\ regCalls = 0

InitLoader ==
  /\ pc = "ajax"
  /\ images = <<>>
  /\ promises = <<>>
  /\ allState = "none"
  /\ errLog = <<>>
  /\ layers = <<>>
  /\ regCalls = 0

\* Promise.all over the image promises: rejected once one is rejected,
\* fulfilled once all are fulfilled.
PromiseAll(ps) ==
  IF \E i \in 1..Len(ps) : ps[i] = "rejected" THEN "rejected"
  ELSE IF \A i \in 1..Len(ps) : ps[i] = "fulfilled" THEN "fulfilled"
  ELSE "pending"

\* The ajax request answers with n guideposts; one promise per image is
\* built and gameStart awaits Promise.all of them.
AjaxDone(n) ==
  /\ pc = "ajax"
  /\ images' = [i \in 1..n |-> "pending"]
  /\ promises' = [i \in 1..n |-> "pending"]
  /\ allState' = PromiseAll(promises')
  /\ pc' = "loading"
  /\ UNCHANGED <<errLog, layers, regCalls>>

\* The ajax request fails: the await throws and gameStart ends.
AjaxFail ==
  /\ pc = "ajax"
  /\ pc' = "failed"
  /\ UNCHANGED <<images, promises, allState, errLog, layers, regCalls>>

\* image.onload = resolve.  A settled Promise.all keeps its state.
ImageOnload(i) ==
  /\ pc \in {"loading", "done"}
  /\ images[i] = "pending"
  /\ images' = [images EXCEPT ![i] = "loaded"]
  /\ promises' = [promises EXCEPT ![i] = "fulfilled"]
  /\ allState' = IF allState = "pending" THEN PromiseAll(promises') ELSE allState
  /\ UNCHANGED <<pc, errLog, layers, regCalls>>

\* image.onerror rejects the image's promise.
ImageOnerror(i) ==
  /\ pc \in {"loading", "done"}
  /\ images[i] = "pending"
  /\ images' = [images EXCEPT ![i] = "error"]
  /\ promises' = [promises EXCEPT ![i] = OnErrorOutcome]
  /\ allState' = IF allState = "pending" THEN PromiseAll(promises') ELSE allState
  /\ UNCHANGED <<pc, errLog, layers, regCalls>>

\* The then-callback: the guidepost layer is registered.
ThenCallback ==
  /\ pc = "loading"
  /\ allState = "fulfilled"
  /\ layers' = registerCustomizedLayerToDraw(layers, LAYER_GUIDEPOST)
  /\ regCalls' = regCalls + 1
  /\ pc' = "done"
  /\ UNCHANGED <<images, promises, allState, errLog>>

\* The catch-callback: console.error(err_msg).
CatchCallback ==
  /\ pc = "loading"
  /\ allState = "rejected"
  /\ errLog' = Append(errLog, "error on loading")
  /\ pc' = "done"
  /\ UNCHANGED <<images, promises, allState, layers, regCalls>>

\* Another extension registers a layer.
RegisterLayer(entry) ==
  /\ \A k \in 1..Len(layers) : layers[k].layerName # entry.layerName
  /\ layers' = registerCustomizedLayerToDraw(layers, entry)
  /\ UNCHANGED <<pc, images, promises, allState, errLog, regCalls>>

NextRender ==
  \/ (\E w \in RenderWires : PlayerUpdate(w)) /\ UNCHANGED <<syncVars, wireVars, loaderVars>>
  \/ InitializeViewerPosition /\ UNCHANGED <<syncVars, wireVars, loaderVars>>
  \/ (\E x \in ReqCoords, y \in ReqCoords : SetViewerPosition(x, y))
       /\ UNCHANGED <<syncVars, wireVars, loaderVars>>
  \/ (\E g \in BOOLEAN, c \in BOOLEAN : Draw(g, c))
       /\ UNCHANGED <<syncVars, wireVars, loaderVars>>
  \/ RenderReturn /\ UNCHANGED <<syncVars, wireVars, loaderVars>>

\* The pixels probed: every column, on the two diagonals of the canvas.
PixelRows(px) == {(px * CanvasHeight) \div CanvasWidth,
                  CanvasHeight - 1 - (px * CanvasHeight) \div CanvasWidth}

NextCoord ==
  \/ (\E x \in ReqCoords, y \in ReqCoords : SetViewerPosition(x, y))
       /\ UNCHANGED <<syncVars, wireVars, loaderVars>>
  \/ (\E px \in 0..(CanvasWidth - 1) : \E py \in PixelRows(px) : PixelRoundTrip(px, py))
       /\ UNCHANGED <<syncVars, wireVars, loaderVars>>
  \/ RenderReturn /\ UNCHANGED <<syncVars, wireVars, loaderVars>>

NextLoader ==
  \/ (\E n \in 0..MaxImages : AjaxDone(n)) /\ UNCHANGED <<syncVars, wireVars, renderVars>>
  \/ AjaxFail /\ UNCHANGED <<syncVars, wireVars, renderVars>>
  \/ (\E i \in 1..Len(images) : ImageOnload(i)) /\ UNCHANGED <<syncVars, wireVars, renderVars>>
  \/ (\E i \in 1..Len(images) : ImageOnerror(i)) /\ UNCHANGED <<syncVars, wireVars, renderVars>>
  \/ ThenCallback /\ UNCHANGED <<syncVars, wireVars, renderVars>>
  \/ CatchCallback /\ UNCHANGED <<syncVars, wireVars, renderVars>>
  \/ (\E e \in OtherLayers : RegisterLayer(e)) /\ UNCHANGED <<syncVars, wireVars, renderVars>>
  \/ (\E g \in BOOLEAN, c \in BOOLEAN : Draw(g, c))
       /\ UNCHANGED <<syncVars, wireVars, loaderVars>>
  \/ RenderReturn /\ UNCHANGED <<syncVars, wireVars, loaderVars>>

\* --------------------------------------------------------- specifications
Init == InitSync /\ InitWireIdle /\ InitRenderIdle /\ InitLoaderIdle

\* Player synchronisation.
Spec == Init /\ [][Next]_vars

\* Sync message serialization.
WireInit == InitSync /\ InitWire /\ InitRenderIdle /\ InitLoaderIdle

SpecWire == WireInit /\ [][NextWire]_vars

\* The renderer with its player collection.
RenderInit == InitSync /\ InitWireIdle /\ InitRender /\ InitLoaderIdle

SpecRender == RenderInit /\ [][NextRender]_vars

\* The coordinate transforms of the renderer under a moving camera.
SpecCoord == Init /\ [][NextCoord]_vars

\* The guidepost extension's start-up and the layers of the renderer.
LoaderInit == InitSync /\ InitWireIdle /\ InitRenderIdle /\ InitLoader

SpecLoader == LoaderInit /\ [][NextLoader]_vars

\* The player over the animation clock, with its serialization.
SpecPlayer == Init /\ [][NextPlayer]_vars

\* Promise callbacks are microtasks: once queued they run.
FairSpecLoader ==
  /\ SpecLoader
  /\ WF_vars(ThenCallback /\ UNCHANGED <<syncVars, wireVars, renderVars>>)
  /\ WF_vars(CatchCallback /\ UNCHANGED <<syncVars, wireVars, renderVars>>)

\* ------------------------------------------------------------------ claims
\* A step in which updateFromMessage is called.
ApplyStep == last = None /\ last' # None

\* C1: on a successful update previousMapCoord becomes the prior mapCoord iff
\* the message carries a coordinate that differs from the current one; a
\* message with the current coordinate leaves previousMapCoord unchanged; with
\* mapCoord unset before, previousMapCoord becomes the new coordinate.
C1_PreviousIffDiffers ==
  [][ApplyStep /\ Val(last').ret =>
       LET m == Val(last').msg
           differs == /\ m.mapCoord # None
                      /\ player.mapCoord # None
                      /\ ~equalsTo(Val(m.mapCoord), Val(player.mapCoord))
       IN IF player.mapCoord = None
            THEN IF m.mapCoord # None
                   THEN player'.previousMapCoord = m.mapCoord
                   ELSE player'.previousMapCoord = player.previousMapCoord
            ELSE IF differs
                   THEN player'.previousMapCoord = player.mapCoord
                   ELSE player'.previousMapCoord = player.previousMapCoord]_vars

\* C2: a successful update leaves every field whose key is absent from the
\* received object (or whose constructor argument is omitted) unchanged.
C2_AbsentMeansNoChange ==
  [][ApplyStep /\ Val(last').ret =>
       LET w == Val(last').input
       IN /\ w.mapCoord = None =>
               /\ player'.mapCoord = player.mapCoord
               /\ player'.previousMapCoord = player.previousMapCoord
               /\ player'.lastMovingTime = player.lastMovingTime
          /\ w.facing = None => player'.facing = player.facing
          /\ w.displayName = None => player'.displayName = player.displayName
          /\ w.displayChar = None => player'.displayChar = player.displayChar
          /\ w.removed = None => player'.removed = player.removed]_vars

\* C3: for a message v with playerID, fromObject(toJSON(v)) = v, and for a
\* received object w with playerID, toJSON(fromObject(w)) has the keys and
\* values of w.
C3_MessageRoundTrip ==
  wireIn.playerID # None =>
    /\ msgBack # None => Val(msgBack) = Val(msgObj).msg
    /\ (wireOut # None /\ Val(msgObj).via = "fromObject") => Val(wireOut) = wireIn

\* C4: an update whose playerID differs from the player's returns false and
\* changes no field of the player.
C4_IdMismatchRejected ==
  [][ApplyStep /\ Val(last').msg.playerID # player.playerID =>
       /\ Val(last').ret = FALSE
       /\ player' = player]_vars

\* C4 witness: a message for another player, carrying a new coordinate and a
\* removed flag, has been rejected.
C4_Witness ==
  /\ last # None
  /\ Val(last).ret = FALSE
  /\ Val(last).msg.playerID = Some("p2")
  /\ Val(last).msg.mapCoord # None
  /\ Val(last).msg.mapCoord # player.mapCoord
  /\ Val(last).msg.removed = Some(TRUE)
  /\ player.removed # Some(TRUE)

\* Equality of a pose coordinate [xn, yn, d] with the rational (x/k, y/k).
PoseIs(p, x, y, k) == p.xn * k = x * p.d /\ p.yn * k = y * p.d

\* C8: with lastMovingTime = t0, previousMapCoord = P, mapCoord = Q, the pose
\* is P at t0, the midpoint at t0 + T/2, Q from t0 + T on, and
\* P + ((now - t0)/T)(Q - P) in between.
C8_InterpolationBoundary ==
  (/\ pose # None
   /\ player.lastMovingTime # None
   /\ player.mapCoord # None
   /\ player.previousMapCoord # None
   /\ now >= Val(player.lastMovingTime)) =>
    LET e == now - Val(player.lastMovingTime)
        T == PLAYER_MOVE_TIME_INTERVAL
        P == Val(player.previousMapCoord)
        Q == Val(player.mapCoord)
        r == Val(pose)
    IN /\ ~r.threw
       /\ r.mapCoord # None
       /\ e = 0 => PoseIs(Val(r.mapCoord), P.x, P.y, 1)
       /\ 2 * e = T => PoseIs(Val(r.mapCoord), P.x + Q.x, P.y + Q.y, 2)
       /\ e >= T => PoseIs(Val(r.mapCoord), Q.x, Q.y, 1)
       /\ e < T => PoseIs(Val(r.mapCoord), T * P.x + e * (Q.x - P.x),
                                          T * P.y + e * (Q.y - P.y), T)

\* C8 witness: a pose computed half way through a move between two different
\* coordinates.
C8_Witness ==
  /\ pose # None
  /\ player.lastMovingTime # None
  /\ 2 * (now - Val(player.lastMovingTime)) = PLAYER_MOVE_TIME_INTERVAL
  /\ player.previousMapCoord # None
  /\ player.previousMapCoord # player.mapCoord
  /\ Val(pose).mapCoord # None
  /\ PoseIs(Val(Val(pose).mapCoord),
            Val(player.previousMapCoord).x + Val(player.mapCoord).x,
            Val(player.previousMapCoord).y + Val(player.mapCoord).y, 2)

\* Every guidepost image has loaded / one has failed to load.
AllLoaded == pc # "ajax" /\ \A i \in 1..Len(images) : images[i] = "loaded"
AnyFailed == \E i \in 1..Len(images) : images[i] = "error"
GuidepostRegistered ==
  \E k \in 1..Len(layers) : layers[k].layerName = LAYER_GUIDEPOST.layerName

\* The safety part of C5.
C5_Barrier ==
  /\ regCalls <= 1
  /\ GuidepostRegistered <=> regCalls = 1
  /\ GuidepostRegistered => AllLoaded
  /\ AnyFailed => ~GuidepostRegistered
  /\ AnyFailed /\ pc = "done" => errLog # <<>>

\* C5: under every interleaving of the onload/onerror events the guidepost
\* layer is registered only after every image has loaded and at most once; if
\* an image fails the layer is never registered and the failure is reported;
\* if every image loads the layer is eventually registered.
C5_AllOrNothing ==
  /\ []C5_Barrier
  /\ (pc = "loading" /\ AllLoaded) ~> GuidepostRegistered
  /\ AnyFailed ~> errLog # <<>>

\* C5 witness: one image has loaded, another has failed, gameStart is over,
\* the failure is logged and nothing is registered.
C5_Witness ==
  /\ pc = "done"
  /\ \E i, j \in 1..Len(images) : images[i] = "loaded" /\ images[j] = "error"
  /\ errLog # <<>>
  /\ regCalls = 0
  /\ ~GuidepostRegistered

\* The layer callbacks draw() invoked, in order.
LayerCalls(log) == SelectSeq(log, LAMBDA d : d.kind = "layer")

\* C6: a draw() pass invokes every registered layer exactly once, in ascending
\* zIndex order whatever the registration order.
C6_LayersInZOrder ==
  (frame # None /\ ~Val(frame).threw) =>
    LET calls == LayerCalls(Val(frame).log)
    IN /\ Len(calls) = Len(layers)
       /\ \A k \in 1..Len(layers) :
            \E i \in 1..Len(calls) : calls[i].id = layers[k].layerName
       /\ \A i, j \in 1..Len(calls) :
            i < j =>
              \E a, b \in 1..Len(layers) :
                /\ layers[a].layerName = calls[i].id
                /\ layers[b].layerName = calls[j].id
                /\ layers[a].zIndex <= layers[b].zIndex

\* The map is at least as large as the viewport.
MapCoversViewport == MaxX(mapSize) >= MinX /\ MaxY(mapSize) >= MinY

\* C7: a draw() pass draws neither the sprite nor the name of a player of the
\* collection whose removed flag is true (a draw at a NaN coordinate puts
\* nothing on the canvas and is not counted).
C7_RemovedNotDrawn ==
  (frame # None /\ MapCoversViewport) =>
    \A i \in 1..Len(Val(frame).log) :
      LET d == Val(frame).log[i]
      IN (d.kind \in {"sprite", "label"} /\ d.x # NaN /\ d.y # NaN) =>
           Val(players[d.id]).removed # Some(TRUE)

\* C9: on a map at least as large as the viewport, setViewerPosition(x, y)
\* for numbers x, y leaves viewerPosition inside [minX,maxX] x [minY,maxY], and
\* at the requested position when that is inside.
C9_Clamping ==
  (/\ camReq # None
   /\ MapCoversViewport
   /\ Val(camReq).x # NaN /\ Val(camReq).y # NaN) =>
    LET r == Val(camReq)
        inside == /\ MinX <= r.x /\ r.x <= MaxX(mapSize)
                  /\ MinY <= r.y /\ r.y <= MaxY(mapSize)
    IN /\ viewerPosition.x # NaN /\ viewerPosition.y # NaN
       /\ MinX <= viewerPosition.x /\ viewerPosition.x <= MaxX(mapSize)
       /\ MinY <= viewerPosition.y /\ viewerPosition.y <= MaxY(mapSize)
       /\ inside => viewerPosition = r

\* C9 witness: a request left of and below the allowed rectangle of a map
\* larger than the viewport has been clamped to its corner.
C9_Witness ==
  /\ camReq # None
  /\ MaxX(mapSize) > MinX /\ MaxY(mapSize) > MinY
  /\ Val(camReq).x # NaN /\ Val(camReq).x < MinX
  /\ Val(camReq).y # NaN /\ Val(camReq).y > MaxY(mapSize)
  /\ viewerPosition = [x |-> MinX, y |-> MaxY(mapSize)]

\* C10: draw() never throws; when the ground layer fails (the character
\* images are there, the map covers the viewport and a player is in the
\* collection) the names of all players are still drawn in the same pass and
\* draw() returns a boolean.
C10_DrawNeverThrows ==
  (/\ frame # None
   /\ Val(frame).charOk
   /\ MapCoversViewport
   /\ \E id \in PlayerIDs : players[id] # None) =>
    /\ ~Val(frame).threw
    /\ Val(frame).ret # None
    /\ \A id \in PlayerIDs :
         players[id] # None =>
           \E i \in 1..Len(Val(frame).log) :
             Val(frame).log[i].kind = "label" /\ Val(frame).log[i].id = id

\* C11: building a PlayerSyncMessage without a playerID (the constructor or
\* fromObject of an object that lacks the key) fails: no message instance
\* comes out of it that carries the data of the object or serializes it.
C11_NoIdRejected ==
  wireIn.playerID = None =>
    /\ msgObj # None => Val(msgObj).msg = EmptyMessage
    /\ wireOut # None => Val(wireOut) = EmptyMessage

\* C12: Player.fromObject(toJSON(v)) equals v on every field - playerID,
\* displayName, displayChar, mapCoord, previousMapCoord, facing,
\* lastMovingTime and removed - and a field unset in v is unset afterwards.
\* (removed unset and removed = false are taken as equal.)
C12_PlayerRoundTrip ==
  stored # None =>
    LET v == Val(stored).before
    IN /\ [player EXCEPT !.removed = None] = [v EXCEPT !.removed = None]
       /\ (player.removed = Some(TRUE)) = (v.removed = Some(TRUE))

\* C13: an update sets lastMovingTime to the current time exactly when it
\* succeeds, the message carries a coordinate, the player's coordinate was set
\* and the two differ; in every other case lastMovingTime is unchanged.
C13_LastMovingTimeIffMoved ==
  [][ApplyStep =>
       LET m == Val(last').msg
           moved == /\ Val(last').ret
                    /\ m.mapCoord # None
                    /\ player.mapCoord # None
                    /\ ~equalsTo(Val(m.mapCoord), Val(player.mapCoord))
       IN IF moved
            THEN player'.lastMovingTime = Some(now)
            ELSE player'.lastMovingTime = player.lastMovingTime]_vars

\* C13 witness: an update to another coordinate has just stamped the player
\* with the current time, later than the start of the clock.
C13_Witness ==
  /\ last # None
  /\ Val(last).ret
  /\ Val(last).msg.mapCoord = player.mapCoord
  /\ player.previousMapCoord # None
  /\ player.previousMapCoord # player.mapCoord
  /\ now > 0
  /\ player.lastMovingTime = Some(now)

WithinOne(a, b) == a - b <= 1 /\ b - a <= 1

\* C15: for every camera position set and every pixel (px, py) of the canvas,
\* mapToCanvasCoordinate(canvasToMapCoordinate(px, py)) is within one pixel of
\* (px, py) in each component.
C15_TransformInverse ==
  (probe # None /\ viewerPosition.x # NaN /\ viewerPosition.y # NaN) =>
    /\ Val(probe).back.x # NaN /\ Val(probe).back.y # NaN
    /\ WithinOne(Val(probe).back.x, Val(probe).px)
    /\ WithinOne(Val(probe).back.y, Val(probe).py)

\* C15 witness: the top right pixel has gone to a map coordinate right of and
\* above the camera and come back to itself.
C15_Witness ==
  /\ probe # None
  /\ viewerPosition.x # NaN /\ viewerPosition.y # NaN
  /\ Val(probe).px = CanvasWidth - 1 /\ Val(probe).py = 0
  /\ Val(probe).map.x > viewerPosition.x /\ Val(probe).map.y < viewerPosition.y
  /\ Val(probe).back = [x |-> CanvasWidth - 1, y |-> 0]

\* C16: while now - lastMovingTime < T the returned facing is the player's
\* facing with the stepping-right suffix in phase 0, with the stepping-left
\* suffix in phase 2 and without suffix in phases 1 and 3, the phase being
\* floor(now / frame interval) mod 4; from T on, or with lastMovingTime unset,
\* it is the player's facing without suffix.
C16_WalkCycleFacing ==
  (pose # None /\ ~Val(pose).threw) =>
    LET moving == /\ player.lastMovingTime # None
                  /\ now - Val(player.lastMovingTime) < PLAYER_MOVE_TIME_INTERVAL
        phase == (now \div PLAYER_MOVE_ANIMATION_FRAME_RATE) % 4
    IN /\ Val(pose).facing = player.facing
       /\ (moving /\ phase = 0) => Val(pose).step = "R"
       /\ (moving /\ phase = 2) => Val(pose).step = "L"
       /\ (moving /\ phase \in {1, 3}) => Val(pose).step = ""
       /\ ~moving => Val(pose).step = ""

\* C16 witness: a pose computed during a move in phase 2 steps left, with the
\* facing the last update gave.
C16_Witness ==
  /\ pose # None
  /\ ~Val(pose).threw
  /\ player.lastMovingTime # None
  /\ now - Val(player.lastMovingTime) < PLAYER_MOVE_TIME_INTERVAL
  /\ (now \div PLAYER_MOVE_ANIMATION_FRAME_RATE) % 4 = 2
  /\ Val(pose).step = "L"
  /\ Val(pose).facing = Some("U")

\* C17: a draw() pass draws the sprite of a player exactly when the
\* mapCellSize x mapCellSize rectangle at mapToCanvasCoordinate of its position
\* intersects the canvas; a rectangle whose left or top is exactly
\* -mapCellSize does not intersect it.
C17_SpriteCulling ==
  (/\ frame # None
   /\ ~Val(frame).threw
   /\ viewerPosition.x # NaN /\ viewerPosition.y # NaN) =>
    \A id \in PlayerIDs :
      (players[id] # None /\ Val(players[id]).mapCoord # None) =>
        LET c == Val(Val(players[id]).mapCoord)
            cc == mapToCanvasCoordinate(viewerPosition, c.x * Unit, c.y * Unit)
            intersects == /\ cc.x + mapCellSize > 0 /\ cc.x < CanvasWidth
                          /\ cc.y + mapCellSize > 0 /\ cc.y < CanvasHeight
            drawn == \E i \in 1..Len(Val(frame).log) :
                       /\ Val(frame).log[i].kind = "sprite"
                       /\ Val(frame).log[i].id = id
        IN drawn <=> intersects

\* The pass an entry of the draw log belongs to.
PassOf(d) == IF d.kind = "ground" THEN 0 ELSE IF d.kind = "sprite" THEN 1 ELSE 2

\* C18: within one draw() pass every ground tile is drawn before any player
\* sprite, and every name after all sprites.
C18_DrawOrder ==
  frame # None =>
    \A i, j \in 1..Len(Val(frame).log) :
      i < j => PassOf(Val(frame).log[i]) <= PassOf(Val(frame).log[j])

\* C18 witness: a pass that drew ground tiles, the sprites of two players and
\* then their two names.
C18_Witness ==
  /\ frame # None
  /\ ~Val(frame).threw
  /\ LET log == Val(frame).log
         n == Len(log)
     IN /\ n >= 5
        /\ log[1].kind = "ground"
        /\ log[n - 3].kind = "sprite" /\ log[n - 2].kind = "sprite"
        /\ log[n - 3].id # log[n - 2].id
        /\ log[n - 1].kind = "label" /\ log[n].kind = "label"

\* The camera is a position inside [minX,maxX] x [minY,maxY].
CameraInside ==
  /\ viewerPosition.x # NaN /\ viewerPosition.y # NaN
  /\ MinX <= viewerPosition.x /\ viewerPosition.x <= MaxX(mapSize)
  /\ MinY <= viewerPosition.y /\ viewerPosition.y <= MaxY(mapSize)

\* An update of a player other than the followed one leaves the camera where
\* it is.
OtherPlayerKeepsCamera ==
  (/\ viewportFollow # None
   /\ players' # players
   /\ players'[Val(viewportFollow)] = players[Val(viewportFollow)]) =>
    viewerPosition' = viewerPosition

\* An update that changes the position of the followed player sets the camera
\* to the clamped (x + 0.5, y + 0.5) of the new position.
FollowedPlayerMovesCamera ==
  (/\ viewportFollow # None
   /\ viewportFollow' = viewportFollow
   /\ players[Val(viewportFollow)] # None
   /\ Val(players'[Val(viewportFollow)]).mapCoord
        # Val(players[Val(viewportFollow)]).mapCoord) =>
    LET c == Val(Val(players'[Val(viewportFollow)]).mapCoord)
    IN viewerPosition' = setViewerPosition(PlusHalf(c.x), PlusHalf(c.y), mapSize)

\* C19: on a map at least as large as the viewport the camera lies inside
\* [minX,maxX] x [minY,maxY] from initializeViewerPosition on, whatever
\* location changes are notified; a notification for another player leaves it
\* unchanged and one for the followed player sets it to the clamped
\* (x + 0.5, y + 0.5).
C19_CameraFollow ==
  /\ []((viewportFollow # None /\ MapCoversViewport) => CameraInside)
  /\ [][OtherPlayerKeepsCamera /\ FollowedPlayerMovesCamera]_vars

\* C20: in every player reached from new Player(id) by updates and
\* serialization round trips, lastMovingTime set implies mapCoord and
\* previousMapCoord set, so getDrawInfo never reads an unset coordinate in its
\* interpolation branch; and a player with a position whose lastMovingTime is
\* unset gets its position as draw pose.
C20_InterpolationSafe ==
  /\ player.lastMovingTime # None =>
       player.mapCoord # None /\ player.previousMapCoord # None
  /\ pose # None =>
       /\ ~Val(pose).threw
       /\ (player.lastMovingTime = None /\ player.mapCoord # None) =>
            /\ Val(pose).mapCoord # None
            /\ PoseIs(Val(Val(pose).mapCoord),
                      Val(player.mapCoord).x, Val(player.mapCoord).y, 1)

\* C20 witness: a player that moved and then went through a serialization
\* round trip is asked for its pose while the move is still running.
C20_Witness ==
  /\ pose # None
  /\ ~Val(pose).threw
  /\ player.removed = None
  /\ player.lastMovingTime # None
  /\ now < Val(player.lastMovingTime) + PLAYER_MOVE_TIME_INTERVAL
  /\ player.previousMapCoord = player.mapCoord
  /\ player.facing = Some("U")

====
